---- MODULE Spec2Model ----
(***************************************************************************)
(* Model of the expense tracker: the JSON record kept by ExpenseStorage    *)
(* (storage.py), the Expense data model (models.py) and the operations of  *)
(* ExpenseService (services.py).                                           *)
(*                                                                         *)
(* Conventions of the model                                                *)
(*   - a Python Optional is a sequence: None is << >>, a value v is <<v>>; *)
(*   - a description is a sequence of one-character strings;               *)
(*   - a date object is a record [year, month, day]; its JSON form         *)
(*     "YYYY-MM-DD" is the number YYYYMMDD; a month-key "YYYY-MM" is the   *)
(*     number YYYYMM;                                                      *)
(*   - every service operation is an operator from the file's contents and *)
(*     the arguments to the new contents and the outcome of the call; the  *)
(*     actions apply them to the one file.                                 *)
(***************************************************************************)
EXTENDS Integers, Sequences, FiniteSets, TLC

VARIABLES
    file_exists,  \* whether the JSON file is on disk
    file,         \* the JSON document: [last_id, expenses, budgets]
    today,        \* what date.today() returns
    call,         \* the last service call: operation and arguments
    result,       \* its outcome: [kind, value, warning]
    assigned,     \* history: every value next_id() has returned
    created,      \* history: number of add_expense calls that succeeded
    deleted,      \* history: ids whose delete_expense succeeded
    procs,        \* concurrent invocations: each one's position and locals
    overlapped,   \* history: an invocation began while another was running
    stale         \* history: a write put back a record read before another
                  \* write

vars == <<file_exists, file, today, call, result, assigned, created, deleted,
          procs, overlapped, stale>>

-----------------------------------------------------------------------------
(* Bounds of the model *)

MaxId == 2        \* next_id() is not called once last_id has reached it
MaxAmount == 1    \* amounts are drawn from -1 .. MaxAmount
MaxCalls == 2     \* invocations each concurrent caller makes

-----------------------------------------------------------------------------
(* Python values *)

None == << >>
Some(v) == <<v>>

\* `x or default` for an Optional[int]: None and 0 are both falsy
OrDefault(opt, default) ==
    IF opt = None \/ opt[1] = 0 THEN default ELSE opt[1]

IsSpace(c) == c \in {" ", "\t", "\n"}

RECURSIVE lstrip(_)
lstrip(s) == IF s # << >> /\ IsSpace(Head(s)) THEN lstrip(Tail(s)) ELSE s

RECURSIVE rstrip(_)
rstrip(s) ==
    IF s # << >> /\ IsSpace(s[Len(s)])
    THEN rstrip(SubSeq(s, 1, Len(s) - 1))
    ELSE s

strip(s) == rstrip(lstrip(s))

RECURSIVE sum(_)
sum(s) == IF s = << >> THEN 0 ELSE Head(s) + sum(Tail(s))

\* date.isoformat() and datetime.strptime(text, "%Y-%m-%d").date()
isoformat(d) == d.year * 10000 + d.month * 100 + d.day
strptime(n) ==
    [year |-> n \div 10000, month |-> (n \div 100) % 100, day |-> n % 100]

-----------------------------------------------------------------------------
(* models.py *)

\* Expense.__post_init__: the error it raises, or "ok"
post_init(description, amount) ==
    IF description = << >> \/ strip(description) = << >>
    THEN "Description cannot be empty"
    ELSE IF amount < 0
    THEN "Amount cannot be negative"
    ELSE "ok"

\* to_dict without the category
to_dict_without_category(e) ==
    [id |-> e.id, description |-> e.description, amount |-> e.amount,
     date |-> isoformat(e.date), category |-> None]

to_dict(e) ==
    [id |-> e.id, description |-> e.description, amount |-> e.amount,
     date |-> isoformat(e.date), category |-> e.category]

\* Expense.from_dict, for an entry __post_init__ accepts
from_dict(d) ==
    [id |-> d.id, description |-> d.description, amount |-> d.amount,
     date |-> strptime(d.date), category |-> d.category]

-----------------------------------------------------------------------------
(* storage.py: each operator maps the file's contents to what the method   *)
(* writes back and returns                                                 *)

InitialData == [last_id |-> 0, expenses |-> << >>, budgets |-> [k \in {} |-> 0]]

\* _ensure_storage_exists writing the initial record unconditionally
ensure_storage_exists_always(exists, data) == InitialData

\* _ensure_storage_exists: the contents after ExpenseStorage.__init__
ensure_storage_exists(exists, data) == IF ~exists THEN InitialData ELSE data

\* get_all_expenses: [err, expenses]; the first invalid entry raises
get_all_expenses(data) ==
    LET bad == {i \in 1..Len(data.expenses) :
                  post_init(data.expenses[i].description,
                            data.expenses[i].amount) # "ok"}
    IN  IF bad # {}
        THEN [err |-> "CorruptRecord", expenses |-> << >>]
        ELSE [err |-> "ok",
              expenses |-> [i \in 1..Len(data.expenses) |->
                              from_dict(data.expenses[i])]]

\* save_all_expenses writing a fresh record that holds the expenses only
save_all_expenses_fresh(data, expenses) ==
    [InitialData EXCEPT
        !.expenses = [i \in 1..Len(expenses) |-> to_dict(expenses[i])]]

save_all_expenses(data, expenses) ==
    [data EXCEPT !.expenses = [i \in 1..Len(expenses) |-> to_dict(expenses[i])]]

\* next_id with the id derived from the number of stored expenses
next_id_recycling(data) ==
    [file |-> [data EXCEPT !.last_id = Len(data.expenses) + 1],
     value |-> Len(data.expenses) + 1]

\* next_id without the write of the incremented counter
next_id_unsaved(data) == [file |-> data, value |-> data.last_id + 1]

\* next_id: [file, value]
next_id(data) ==
    [file |-> [data EXCEPT !.last_id = @ + 1], value |-> data.last_id + 1]

get_budgets(data) == data.budgets

\* set_budget writing a budgets mapping that holds the one key only
set_budget_replacing(data, key, amount) ==
    [data EXCEPT !.budgets = [k \in {key} |-> amount]]

set_budget(data, key, amount) ==
    [data EXCEPT !.budgets =
        [k \in (DOMAIN data.budgets) \cup {key} |->
            IF k = key THEN amount ELSE data.budgets[k]]]

-----------------------------------------------------------------------------
(* services.py: each operator maps the file's contents and the arguments   *)
(* to [file, result, ids]: the contents the call leaves behind, what the   *)
(* caller gets, and the values next_id() returned during the call          *)

Result(kind, value, warning) == [kind |-> kind, value |-> value, warning |-> warning]
Raise(kind) == Result(kind, 0, None)
Outcome(data, res, ids) == [file |-> data, result |-> res, ids |-> ids]

month_key(year, month) == year * 100 + month

\* get_monthly_budget: [err, value], value an Optional amount
get_monthly_budget(data, now, month, year) ==
    LET m == OrDefault(month, now.month)
        y == OrDefault(year, now.year)
        key == month_key(y, m)
    IN  IF ~(1 <= m /\ m <= 12)
        THEN [err |-> "InvalidInput", value |-> None]
        ELSE [err |-> "ok",
              value |-> IF key \in DOMAIN get_budgets(data)
                        THEN Some(get_budgets(data)[key])
                        ELSE None]

\* spent_for_month: [err, value]
spent_for_month(data, month, year) ==
    LET all == get_all_expenses(data)
        InMonth(e) == e.date.year = year /\ e.date.month = month
        matching == SelectSeq(all.expenses, InMonth)
    IN  IF all.err # "ok"
        THEN [err |-> all.err, value |-> 0]
        ELSE [err |-> "ok",
              value |-> sum([i \in 1..Len(matching) |-> matching[i].amount])]

\* the comparison with >= in place of >
ExceedsOrEqual(spent, budget) == spent >= budget

\* the comparison of budget_warning_for_month
Exceeds(spent, budget) == spent > budget

\* budget_warning_for_month: [err, warning]; a warning is None or
\* <<month-key, budget, spent>>, the three values its message states
budget_warning_for_month(data, now, month, year) ==
    LET budget == get_monthly_budget(data, now, Some(month), Some(year))
        spent == spent_for_month(data, month, year)
    IN  IF budget.err # "ok" THEN [err |-> budget.err, warning |-> None]
        ELSE IF budget.value = None THEN [err |-> "ok", warning |-> None]
        ELSE IF spent.err # "ok" THEN [err |-> spent.err, warning |-> None]
        ELSE IF Exceeds(spent.value, budget.value[1])
        THEN [err |-> "ok",
              warning |-> <<month_key(year, month), budget.value[1], spent.value>>]
        ELSE [err |-> "ok", warning |-> None]

\* add_expense. `date` is a local of the function (it is assigned in it), so
\* date.today() is reached only when spent_on is None and then reads the
\* local before its assignment: UnboundLocalError. next_id() is evaluated as
\* a constructor argument, hence before __post_init__ validates.
add_expense(data, now, description, amount, category, spent_on) ==
    LET all == get_all_expenses(data)
    IN  IF all.err # "ok" THEN Outcome(data, Raise(all.err), {})
        ELSE IF spent_on = None
        THEN Outcome(data, Raise("UnboundLocalError"), {})
        ELSE
        LET d == spent_on[1]
            n == next_id(data)
            expense == [id |-> n.value, description |-> description,
                        amount |-> amount, date |-> d, category |-> category]
            saved == save_all_expenses(n.file, Append(all.expenses, expense))
            w == budget_warning_for_month(saved, now, d.month, d.year)
        IN  IF post_init(description, amount) # "ok"
            THEN Outcome(n.file, Raise("InvalidInput"), {n.value})
            ELSE IF w.err # "ok"
            THEN Outcome(saved, Raise(w.err), {n.value})
            ELSE Outcome(saved, Result("ok", n.value, w.warning), {n.value})

\* update_expense: the first expense with the id is changed in memory field
\* by field (plain attribute assignment: __post_init__ does not run again)
update_expense(data, now, expense_id, description, amount, category) ==
    LET all == get_all_expenses(data)
        hits == {i \in 1..Len(all.expenses) : all.expenses[i].id = expense_id}
    IN  IF all.err # "ok" THEN Outcome(data, Raise(all.err), {})
        ELSE IF hits = {} THEN Outcome(data, Raise("NotFound"), {})
        ELSE
        LET i == CHOOSE j \in hits : \A k \in hits : j <= k
            e == all.expenses[i]
            e1 == IF description # None
                  THEN [e EXCEPT !.description = description[1]] ELSE e
            e2 == IF amount # None THEN [e1 EXCEPT !.amount = amount[1]] ELSE e1
            e3 == IF category # None THEN [e2 EXCEPT !.category = category] ELSE e2
            saved == save_all_expenses(data, [all.expenses EXCEPT ![i] = e3])
            w == budget_warning_for_month(saved, now, e3.date.month, e3.date.year)
        IN  IF amount # None /\ amount[1] < 0
            THEN Outcome(data, Raise("InvalidInput"), {})
            ELSE IF w.err # "ok"
            THEN Outcome(saved, Raise(w.err), {})
            ELSE Outcome(saved, Result("ok", e3.id, w.warning), {})

\* delete_expense keeping only the expenses created after the given one
delete_expense_and_older(data, expense_id) ==
    LET all == get_all_expenses(data)
        Keep(e) == e.id > expense_id
        new_expenses == SelectSeq(all.expenses, Keep)
    IN  IF all.err # "ok" THEN Outcome(data, Raise(all.err), {})
        ELSE IF Len(new_expenses) = Len(all.expenses)
        THEN Outcome(data, Raise("NotFound"), {})
        ELSE Outcome(save_all_expenses(data, new_expenses), Raise("ok"), {})

delete_expense(data, expense_id) ==
    LET all == get_all_expenses(data)
        Keep(e) == e.id # expense_id
        new_expenses == SelectSeq(all.expenses, Keep)
    IN  IF all.err # "ok" THEN Outcome(data, Raise(all.err), {})
        ELSE IF Len(new_expenses) = Len(all.expenses)
        THEN Outcome(data, Raise("NotFound"), {})
        ELSE Outcome(save_all_expenses(data, new_expenses), Raise("ok"), {})

\* set_monthly_budget: returns the month-key
set_monthly_budget(data, now, amount, month, year) ==
    LET m == OrDefault(month, now.month)
        y == OrDefault(year, now.year)
        key == month_key(y, m)
    IN  IF amount < 0 THEN Outcome(data, Raise("InvalidInput"), {})
        ELSE IF ~(1 <= m /\ m <= 12)
        THEN Outcome(data, Raise("InvalidInput"), {})
        ELSE Outcome(set_budget(data, key, amount), Result("ok", key, None), {})

\* list_expenses: the stored sequence, as Expense objects
list_expenses(data) ==
    LET all == get_all_expenses(data)
    IN  IF all.err # "ok" THEN Outcome(data, Raise(all.err), {})
        ELSE Outcome(data, Result("ok", all.expenses, None), {})

\* total_expenses summing the expenses of one month only
total_expenses_of_march(data) ==
    LET spent == spent_for_month(data, 3, 2024)
    IN  IF spent.err # "ok" THEN Outcome(data, Raise(spent.err), {})
        ELSE Outcome(data, Result("ok", spent.value, None), {})

\* total_expenses
total_expenses(data) ==
    LET all == get_all_expenses(data)
    IN  IF all.err # "ok" THEN Outcome(data, Raise(all.err), {})
        ELSE Outcome(data,
                     Result("ok",
                            sum([i \in 1..Len(all.expenses) |->
                                   all.expenses[i].amount]),
                            None),
                     {})

-----------------------------------------------------------------------------
(* The values the callers pass *)

Descriptions == {<<"a">>, <<" ">>, << >>}
Amounts == -1..MaxAmount
Categories == {None, Some("Food")}
Dates == {[year |-> 2024, month |-> 3, day |-> 5],
          [year |-> 2024, month |-> 4, day |-> 1]}
Ids == 1..(MaxId + 1)
Months == {None, Some(-1), Some(0), Some(3), Some(13)}
Years == {None, Some(2024)}

Optional(S) == {None} \cup {Some(v) : v \in S}

Call(op, id, description, amount, category, spent_on, month, year) ==
    [op |-> op, id |-> id, description |-> description, amount |-> amount,
     category |-> category, spent_on |-> spent_on, month |-> month,
     year |-> year]

-----------------------------------------------------------------------------
(* The state machine: one action per service call. A front end builds the  *)
(* service, and with it the storage, before each call (cli.py), so         *)
(* each action starts from the contents _ensure_storage_exists leaves.     *)

Init ==
    /\ file_exists = FALSE
    /\ file = InitialData
    /\ today = [year |-> 2024, month |-> 3, day |-> 5]
    /\ call = Call("none", 0, None, None, None, None, None, None)
    /\ result = Raise("none")
    /\ assigned = {}
    /\ created = 0
    /\ deleted = {}
    /\ procs = << >>
    /\ overlapped = FALSE
    /\ stale = FALSE

Apply(out, c) ==
    /\ file_exists' = TRUE
    /\ file' = out.file
    /\ result' = out.result
    /\ call' = c
    /\ assigned' = assigned \cup out.ids
    /\ today' = today
    /\ UNCHANGED <<procs, overlapped, stale>>

AddExpenseWith(descriptions, amounts, categories, dates) ==
    \E description \in descriptions, amount \in amounts,
       category \in categories, spent_on \in dates :
        LET data == ensure_storage_exists(file_exists, file)
            out == add_expense(data, today, description, amount, category, spent_on)
        IN  /\ data.last_id < MaxId
            /\ Apply(out, Call("add", 0, Some(description), Some(amount),
                               category, spent_on, None, None))
            /\ created' = IF out.result.kind = "ok" THEN created + 1 ELSE created
            /\ deleted' = deleted

UpdateExpenseWith(ids, descriptions, amounts, categories) ==
    \E expense_id \in ids, description \in descriptions,
       amount \in amounts, category \in categories :
        LET data == ensure_storage_exists(file_exists, file)
            out == update_expense(data, today, expense_id, description, amount, category)
        IN  /\ Apply(out, Call("update", expense_id, description, amount,
                               category, None, None, None))
            /\ UNCHANGED <<created, deleted>>

DeleteExpense ==
    \E expense_id \in Ids :
        LET data == ensure_storage_exists(file_exists, file)
            out == delete_expense(data, expense_id)
        IN  /\ Apply(out, Call("delete", expense_id, None, None, None, None,
                               None, None))
            /\ deleted' = IF out.result.kind = "ok"
                          THEN deleted \cup {expense_id} ELSE deleted
            /\ created' = created

SetMonthlyBudgetWith(amounts, months, years) ==
    \E amount \in amounts, month \in months, year \in years :
        LET data == ensure_storage_exists(file_exists, file)
            out == set_monthly_budget(data, today, amount, month, year)
        IN  /\ Apply(out, Call("set_budget", 0, None, Some(amount), None, None,
                               month, year))
            /\ UNCHANGED <<created, deleted>>

GetMonthlyBudgetWith(months, years) ==
    \E month \in months, year \in years :
        LET data == ensure_storage_exists(file_exists, file)
            got == get_monthly_budget(data, today, month, year)
            out == Outcome(data,
                           IF got.err # "ok" THEN Raise(got.err)
                           ELSE Result("ok", got.value, None),
                           {})
        IN  /\ Apply(out, Call("get_budget", 0, None, None, None, None,
                               month, year))
            /\ UNCHANGED <<created, deleted>>

ListExpenses ==
    LET data == ensure_storage_exists(file_exists, file)
        out == list_expenses(data)
    IN  /\ Apply(out, Call("list", 0, None, None, None, None, None, None))
        /\ UNCHANGED <<created, deleted>>

TotalExpenses ==
    LET data == ensure_storage_exists(file_exists, file)
        out == total_expenses(data)
    IN  /\ Apply(out, Call("total", 0, None, None, None, None, None, None))
        /\ UNCHANGED <<created, deleted>>

AddExpense ==
    AddExpenseWith(Descriptions, Amounts, Categories, Optional(Dates))

UpdateExpense ==
    UpdateExpenseWith(Ids, Optional(Descriptions), Optional(Amounts), Categories)

SetMonthlyBudget == SetMonthlyBudgetWith(Amounts, Months, Years)

Next ==
    \/ AddExpense
    \/ UpdateExpense
    \/ DeleteExpense
    \/ SetMonthlyBudget
    \/ ListExpenses
    \/ TotalExpenses

Spec == Init /\ [][Next]_vars

-----------------------------------------------------------------------------
(* The same calls with the arguments that matter to the budgets: valid     *)
(* expenses, and budgets for two months                                    *)

BudgetMonths == {None, Some(3), Some(4), Some(13)}

BudgetAddExpense ==
    AddExpenseWith({<<"a">>}, 0..MaxAmount, {None}, {Some(d) : d \in Dates})

BudgetUpdateExpense ==
    UpdateExpenseWith(Ids, {None}, Optional(0..MaxAmount), {None})

BudgetSet == SetMonthlyBudgetWith(Amounts, BudgetMonths, Years)

BudgetGet == GetMonthlyBudgetWith(BudgetMonths, Years)

NextBudget ==
    \/ BudgetAddExpense
    \/ BudgetUpdateExpense
    \/ DeleteExpense
    \/ BudgetSet
    \/ BudgetGet

SpecBudget == Init /\ [][NextBudget]_vars

-----------------------------------------------------------------------------
(* Concurrent callers. Two callers each run add_expense or                 *)
(* set_monthly_budget on the same file; a step is one _read_data or one    *)
(* _write_data of a Storage method, together with the computation of the   *)
(* caller that follows it up to its next access to the file. There is no   *)
(* lock: the steps of the two callers interleave freely.                   *)

Procs == {1, 2}

\* the description each caller uses, so that its expense can be told apart
ProcDescription(p) == IF p = 1 THEN <<"a">> ELSE <<"b">>

IdleProc ==
    [pc |-> "idle", calls |-> 0, op |-> "none", description |-> << >>,
     amount |-> 0, date |-> [year |-> 0, month |-> 0, day |-> 0], key |-> 0,
     expenses |-> << >>, data |-> InitialData, id |-> 0, budget |-> 0,
     result |-> Raise("none")]

InitConc ==
    /\ file_exists = TRUE
    /\ file = InitialData
    /\ today = [year |-> 2024, month |-> 3, day |-> 5]
    /\ call = Call("none", 0, None, None, None, None, None, None)
    /\ result = Raise("none")
    /\ assigned = {}
    /\ created = 0
    /\ deleted = {}
    /\ procs = [p \in Procs |-> IdleProc]
    /\ overlapped = FALSE
    /\ stale = FALSE

Running(p) == procs[p].pc # "idle"

\* callers that will still draw an id in their current invocation
Drawing == {q \in Procs : procs[q].pc \in {"add_get", "nid_read", "nid_write"}}

Return(p, res) ==
    [procs EXCEPT ![p].pc = "idle", ![p].calls = @ + 1, ![p].result = res]

ConcFrame == UNCHANGED <<file_exists, today, call, result, created, deleted>>

\* add_expense is called (services.py:16); spent_on is supplied
BeginAdd ==
    \E p \in Procs, amount \in 1..MaxAmount, spent_on \in Dates :
        /\ ~Running(p)
        /\ procs[p].calls < MaxCalls
        /\ file.last_id + Cardinality(Drawing) < MaxId
        /\ procs' = [procs EXCEPT ![p].pc = "add_get", ![p].op = "add",
                                  ![p].description = ProcDescription(p),
                                  ![p].amount = amount, ![p].date = spent_on]
        /\ overlapped' = (overlapped \/ \E q \in Procs \ {p} : Running(q))
        /\ UNCHANGED <<file, assigned, stale>>
        /\ ConcFrame

\* set_monthly_budget is called and validates its arguments
\* (services.py:144-151)
BeginSetBudget ==
    \E p \in Procs, amount \in 0..MaxAmount, month \in {3, 4} :
        /\ ~Running(p)
        /\ procs[p].calls < MaxCalls
        /\ procs' = [procs EXCEPT ![p].pc = "bud_read", ![p].op = "set_budget",
                                  ![p].amount = amount,
                                  ![p].key = month_key(today.year, month)]
        /\ overlapped' = (overlapped \/ \E q \in Procs \ {p} : Running(q))
        /\ UNCHANGED <<file, assigned, stale>>
        /\ ConcFrame

\* get_all_expenses of add_expense (services.py:23): one read
AddGet ==
    \E p \in Procs :
        /\ procs[p].pc = "add_get"
        /\ LET all == get_all_expenses(file)
           IN  procs' = IF all.err # "ok" THEN Return(p, Raise(all.err))
                        ELSE [procs EXCEPT ![p].pc = "nid_read",
                                           ![p].expenses = all.expenses]
        /\ UNCHANGED <<file, assigned, overlapped, stale>>
        /\ ConcFrame

\* next_id: data = self._read_data() (storage.py:48)
NextIdRead ==
    \E p \in Procs :
        /\ procs[p].pc = "nid_read"
        /\ procs' = [procs EXCEPT ![p].pc = "nid_write", ![p].data = file]
        /\ UNCHANGED <<file, assigned, overlapped, stale>>
        /\ ConcFrame

\* next_id: data["last_id"] += 1; self._write_data(data) (storage.py:49-51),
\* then the Expense is constructed and validated (services.py:25-31)
NextIdWrite ==
    \E p \in Procs :
        /\ procs[p].pc = "nid_write"
        /\ LET n == next_id(procs[p].data)
           IN  /\ file' = n.file
               /\ assigned' = assigned \cup {n.value}
               /\ procs' =
                    IF post_init(procs[p].description, procs[p].amount) # "ok"
                    THEN [Return(p, Raise("InvalidInput")) EXCEPT ![p].id = n.value]
                    ELSE [procs EXCEPT ![p].pc = "save_read", ![p].id = n.value]
        /\ stale' = (stale \/ procs[p].data # file)
        /\ UNCHANGED overlapped
        /\ ConcFrame

\* save_all_expenses: data = self._read_data() (storage.py:43)
SaveRead ==
    \E p \in Procs :
        /\ procs[p].pc = "save_read"
        /\ procs' = [procs EXCEPT ![p].pc = "save_write", ![p].data = file]
        /\ UNCHANGED <<file, assigned, overlapped, stale>>
        /\ ConcFrame

\* save_all_expenses: data["expenses"] = ...; self._write_data(data)
\* (storage.py:44-45), of the list read at the start plus the new expense
SaveWrite ==
    \E p \in Procs :
        /\ procs[p].pc = "save_write"
        /\ LET expense == [id |-> procs[p].id,
                           description |-> procs[p].description,
                           amount |-> procs[p].amount,
                           date |-> procs[p].date, category |-> None]
           IN  file' = save_all_expenses(procs[p].data,
                                         Append(procs[p].expenses, expense))
        /\ procs' = [procs EXCEPT ![p].pc = "warn_budget"]
        /\ stale' = (stale \/ procs[p].data # file)
        /\ UNCHANGED <<assigned, overlapped>>
        /\ ConcFrame

\* budget_warning_for_month: get_monthly_budget reads the budgets
\* (services.py:173-175)
WarnBudget ==
    \E p \in Procs :
        /\ procs[p].pc = "warn_budget"
        /\ LET budget == get_monthly_budget(file, today,
                                            Some(procs[p].date.month),
                                            Some(procs[p].date.year))
           IN  procs' =
                 IF budget.err # "ok" THEN Return(p, Raise(budget.err))
                 ELSE IF budget.value = None
                 THEN Return(p, Result("ok", procs[p].id, None))
                 ELSE [procs EXCEPT ![p].pc = "warn_spent",
                                    ![p].budget = budget.value[1]]
        /\ UNCHANGED <<file, assigned, overlapped, stale>>
        /\ ConcFrame

\* budget_warning_for_month: spent_for_month reads the expenses and the
\* warning is decided (services.py:176-180)
WarnSpent ==
    \E p \in Procs :
        /\ procs[p].pc = "warn_spent"
        /\ LET spent == spent_for_month(file, procs[p].date.month,
                                        procs[p].date.year)
               key == month_key(procs[p].date.year, procs[p].date.month)
           IN  procs' =
                 IF spent.err # "ok" THEN Return(p, Raise(spent.err))
                 ELSE IF Exceeds(spent.value, procs[p].budget)
                 THEN Return(p, Result("ok", procs[p].id,
                                       <<key, procs[p].budget, spent.value>>))
                 ELSE Return(p, Result("ok", procs[p].id, None))
        /\ UNCHANGED <<file, assigned, overlapped, stale>>
        /\ ConcFrame

\* set_budget: data = self._read_data() (storage.py:57)
BudgetRead ==
    \E p \in Procs :
        /\ procs[p].pc = "bud_read"
        /\ procs' = [procs EXCEPT ![p].pc = "bud_write", ![p].data = file]
        /\ UNCHANGED <<file, assigned, overlapped, stale>>
        /\ ConcFrame

\* set_budget: data["budgets"][key] = amount; self._write_data(data)
\* (storage.py:58-59), and set_monthly_budget returns the key
BudgetWrite ==
    \E p \in Procs :
        /\ procs[p].pc = "bud_write"
        /\ file' = set_budget(procs[p].data, procs[p].key, procs[p].amount)
        /\ procs' = Return(p, Result("ok", procs[p].key, None))
        /\ stale' = (stale \/ procs[p].data # file)
        /\ UNCHANGED <<assigned, overlapped>>
        /\ ConcFrame

NextConc ==
    \/ BeginAdd
    \/ BeginSetBudget
    \/ AddGet
    \/ NextIdRead
    \/ NextIdWrite
    \/ SaveRead
    \/ SaveWrite
    \/ WarnBudget
    \/ WarnSpent
    \/ BudgetRead
    \/ BudgetWrite

SpecConc == InitConc /\ [][NextConc]_vars

-----------------------------------------------------------------------------
(* Properties *)

Blank(description) ==
    \A i \in 1..Len(description) : description[i] \in {" ", "\t", "\n"}

StoredIds == {file.expenses[i].id : i \in 1..Len(file.expenses)}

\* C1: a successful add_expense returns an id strictly greater than every
\* id assigned before the call (deleted expenses' ids included), and no
\* call ever lowers last_id.
C1_FreshIds ==
    [][/\ (call'.op = "add" /\ result'.kind = "ok")
            => \A i \in assigned : result'.value > i
       /\ file'.last_id >= file.last_id]_vars

\* an add succeeded after an earlier expense had been deleted
C1_Witness ==
    /\ call.op = "add" /\ result.kind = "ok"
    /\ deleted # {}
    /\ result.value \notin deleted

\* C2: the k-th expense ever created in the record has id k, whatever calls
\* (rejected ones included) came in between.
C2_KthExpenseHasIdK ==
    (call.op = "add" /\ result.kind = "ok") => result.value = created

\* C3: an add_expense with a negative amount or a blank description that is
\* rejected with InvalidInput leaves last_id, expenses and budgets as they
\* were before the call.
C3_RejectedAddChangesNothing ==
    [][(/\ call'.op = "add"
        /\ (call'.amount[1] < 0 \/ Blank(call'.description[1]))
        /\ result'.kind = "InvalidInput")
          => file' = file]_vars

\* C4: add_expense with a valid description, a non-negative amount and no
\* spent_on succeeds: it appends exactly one expense, dated today, and
\* returns its id.
C4_AddWithoutDateSucceeds ==
    [][(/\ call'.op = "add"
        /\ call'.amount[1] >= 0 /\ ~Blank(call'.description[1])
        /\ call'.spent_on = None)
          => /\ result'.kind = "ok"
             /\ Len(file'.expenses) = Len(file.expenses) + 1
             /\ SubSeq(file'.expenses, 1, Len(file.expenses)) = file.expenses
             /\ file'.expenses[Len(file'.expenses)].date = isoformat(today)
             /\ file'.expenses[Len(file'.expenses)].id = result'.value]_vars

\* C5: no stored expense has a negative amount or a blank description, so
\* the record can always be read back.
C5_StoredExpensesValid ==
    \A i \in 1..Len(file.expenses) :
        /\ file.expenses[i].amount >= 0
        /\ ~Blank(file.expenses[i].description)

\* C6: the ids of the stored expenses are pairwise distinct and each is at
\* most last_id.
C6_IdsUniqueAndBounded ==
    \A i \in 1..Len(file.expenses) :
        /\ file.expenses[i].id <= file.last_id
        /\ \A j \in 1..Len(file.expenses) :
              i # j => file.expenses[i].id # file.expenses[j].id

\* a second expense has just been added next to a stored one
C6_Witness ==
    /\ Len(file.expenses) >= 2
    /\ call.op = "add" /\ result.kind = "ok"

\* C7: update_expense with an id no stored expense has fails with NotFound
\* and leaves the record unchanged, whatever fields are supplied.
C7_UpdateUnknownIdNotFound ==
    [][(call'.op = "update" /\ call'.id \notin StoredIds)
          => (result'.kind = "NotFound" /\ file' = file)]_vars

\* C8: once delete_expense(id) has succeeded, every later delete_expense(id)
\* or update_expense(id, ...) fails with NotFound and changes nothing.
C8_DeletedIdStaysNotFound ==
    [][(call'.op \in {"delete", "update"} /\ call'.id \in deleted)
          => (result'.kind = "NotFound" /\ file' = file)]_vars

\* C9: set_monthly_budget with a negative amount, or with a supplied month
\* outside 1..12, fails with InvalidInput and writes nothing.
C9_BadBudgetRejected ==
    [][(/\ call'.op = "set_budget"
        /\ \/ call'.amount[1] < 0
           \/ (call'.month # None /\ call'.month[1] \notin 1..12))
          => (result'.kind = "InvalidInput" /\ file' = file)]_vars

\* the amounts stored for the month YYYYMM, read off the JSON dates
RECURSIVE SpentIn(_, _)
SpentIn(ym, n) ==
    IF n = 0 THEN 0
    ELSE SpentIn(ym, n - 1)
         + (IF file.expenses[n].date \div 100 = ym
            THEN file.expenses[n].amount ELSE 0)

\* C10: the warning a successful add_expense or update_expense returns for
\* an expense dated in month (y, m) is present exactly when a budget is
\* stored for that month and the stored expenses of the month, the change
\* just persisted included, sum to strictly more than it.
C10_WarningIffOverBudget ==
    (call.op \in {"add", "update"} /\ result.kind = "ok") =>
        \A i \in 1..Len(file.expenses) :
            file.expenses[i].id = result.value =>
                LET ym == file.expenses[i].date \div 100
                IN  (result.warning # None) <=>
                        /\ ym \in DOMAIN file.budgets
                        /\ SpentIn(ym, Len(file.expenses)) > file.budgets[ym]

\* an add returned a warning for a month whose budget it exceeded
C10_Witness ==
    /\ call.op = "add" /\ result.kind = "ok"
    /\ result.warning # None
    /\ Len(file.expenses) >= 2

\* the amounts of the first n entries of a sequence of expenses
RECURSIVE SumAmounts(_, _)
SumAmounts(expenses, n) ==
    IF n = 0 THEN 0 ELSE SumAmounts(expenses, n - 1) + expenses[n].amount

\* C12: total_expenses() equals the sum of amount over the sequence
\* list_expenses() returns on the same record, and is 0 when no expense is
\* stored; where list_expenses() raises, total_expenses() raises as well.
C12_TotalIsSumOfList ==
    call.op = "total" =>
        LET listed == list_expenses(file).result
        IN  IF listed.kind = "ok"
            THEN /\ result.kind = "ok"
                 /\ result.value = SumAmounts(listed.value, Len(listed.value))
                 /\ (file.expenses = << >> => result.value = 0)
            ELSE result.kind = listed.kind

\* total_expenses() returned the sum of two stored amounts, one of them not 0
C12_Witness ==
    /\ call.op = "total" /\ result.kind = "ok"
    /\ Len(file.expenses) = 2
    /\ result.value > 0
    /\ deleted = {}

\* C13: update_expense on an existing id with a negative amount fails with
\* InvalidInput and leaves the record unchanged, whatever description or
\* category is supplied with it.
C13_NegativeUpdateRejected ==
    [][(/\ call'.op = "update"
        /\ call'.id \in StoredIds
        /\ call'.amount # None /\ call'.amount[1] < 0)
          => (result'.kind = "InvalidInput" /\ file' = file)]_vars

\* C14: a successful update_expense changes only the supplied fields of the
\* one expense with the id: its id and date, its unsupplied fields, every
\* other expense, the number and order of expenses, last_id and budgets
\* stay as they were.
C14_UpdateFrame ==
    [][(call'.op = "update" /\ result'.kind = "ok")
          => /\ file'.last_id = file.last_id
             /\ file'.budgets = file.budgets
             /\ Len(file'.expenses) = Len(file.expenses)
             /\ \A i \in 1..Len(file.expenses) :
                  LET old == file.expenses[i]
                      new == file'.expenses[i]
                  IN  IF old.id # call'.id THEN new = old
                      ELSE /\ new.id = old.id
                           /\ new.date = old.date
                           /\ new.description =
                                IF call'.description = None
                                THEN old.description ELSE call'.description[1]
                           /\ new.amount =
                                IF call'.amount = None
                                THEN old.amount ELSE call'.amount[1]
                           /\ new.category =
                                IF call'.category = None
                                THEN old.category ELSE call'.category]_vars

\* an update changed the amount alone of the second of two expenses, which
\* has a category
C14_Witness ==
    /\ call.op = "update" /\ result.kind = "ok"
    /\ call.id = 2 /\ call.amount = Some(1)
    /\ call.description = None /\ call.category = None
    /\ Len(file.expenses) = 2
    /\ file.expenses[2].category = Some("Food")
    /\ file.expenses[2].amount = 1

C17_EnsureExistsIdempotent ==
    [][/\ (file_exists /\ call'.op \in {"list", "total"}) => file' = file
       /\ (file_exists /\ call'.op = "add" /\ result'.kind = "ok")
            => result'.value = file.last_id + 1
       /\ ~file_exists
            => /\ file_exists'
               /\ call'.op \in {"list", "total"} => file' = InitialData]_vars

\* a read-only call ran on a record that holds an expense and a budget
C17_Witness ==
    /\ call.op = "list" /\ result.kind = "ok"
    /\ file.last_id = 2
    /\ Len(file.expenses) = 1
    /\ DOMAIN file.budgets # {}

\* C20: the stored expenses are in strictly increasing order of id, so
\* list_expenses() returns them in order of creation.
C20_StoredInIdOrder ==
    \A i, j \in 1..Len(file.expenses) :
        i < j => file.expenses[i].id < file.expenses[j].id

\* two expenses are stored, the first of them updated after the second was
\* added
C20_Witness ==
    /\ Len(file.expenses) = 2
    /\ call.op = "update" /\ result.kind = "ok" /\ call.id = 1

\* C11: a budget, once set, stays stored under its key with the amount
\* set: get_monthly_budget for the month of a successful set_monthly_budget
\* returns the amount, and no add, update, delete or set for another key
\* changes or removes it; only a successful set for the same key replaces
\* the amount.
C11_BudgetsPersist ==
    [][/\ \A k \in DOMAIN file.budgets :
            /\ k \in DOMAIN file'.budgets
            /\ file'.budgets[k] # file.budgets[k]
                 => (call'.op = "set_budget" /\ result'.kind = "ok"
                     /\ result'.value = k)
       /\ (call'.op = "set_budget" /\ result'.kind = "ok")
            => get_monthly_budget(file', today, call'.month, call'.year)
                 = [err |-> "ok", value |-> call'.amount]
       /\ (call'.op = "get_budget" /\ result'.kind = "ok")
            => /\ file' = file
               /\ LET m == IF call'.month = None
                           THEN today.month ELSE call'.month[1]
                      k == today.year * 100 + m
                  IN  result'.value =
                        IF k \in DOMAIN file.budgets
                        THEN Some(file.budgets[k]) ELSE None]_vars

\* the budget of March is read back after an expense was added and a
\* budget for April was set
C11_Witness ==
    /\ call.op = "get_budget" /\ result.kind = "ok"
    /\ call.month = Some(3)
    /\ result.value = Some(1)
    /\ DOMAIN file.budgets = {202403, 202404}
    /\ file.budgets[202404] = 0
    /\ Len(file.expenses) = 1

\* C16: each Storage mutator changes only its own field of the record it
\* read. When the file still holds what the method read, next_id adds 1 to
\* last_id and leaves expenses and budgets, save_all_expenses leaves
\* last_id and budgets, and set_budget sets its key and leaves last_id,
\* expenses and every other budget key.
C16_MutatorFrame ==
    [][\A p \in Procs :
          (procs'[p] # procs[p] /\ procs[p].data = file) =>
             /\ procs[p].pc = "nid_write" =>
                   /\ file'.last_id = file.last_id + 1
                   /\ file'.expenses = file.expenses
                   /\ file'.budgets = file.budgets
             /\ procs[p].pc = "save_write" =>
                   /\ file'.last_id = file.last_id
                   /\ file'.budgets = file.budgets
                   /\ Len(file'.expenses) = Len(procs[p].expenses) + 1
             /\ procs[p].pc = "bud_write" =>
                   /\ file'.last_id = file.last_id
                   /\ file'.expenses = file.expenses
                   /\ DOMAIN file'.budgets =
                         (DOMAIN file.budgets) \cup {procs[p].key}
                   /\ file'.budgets[procs[p].key] = procs[p].amount
                   /\ \A k \in (DOMAIN file.budgets) \ {procs[p].key} :
                         file'.budgets[k] = file.budgets[k]]_vars

\* every mutator has written what it read plus its own change, and the
\* record holds two expenses, two budgets and the counter at 2
C16_Witness ==
    /\ ~stale
    /\ Len(file.expenses) = 2
    /\ DOMAIN file.budgets = {202403, 202404}
    /\ file.last_id = 2
    /\ \A p \in Procs : ~Running(p)

\* the last invocation of caller p returned success and the record lacks
\* what it wrote: the expense with its id and description, or its budget key
Lost(p) ==
    /\ ~Running(p)
    /\ procs[p].calls >= 1
    /\ procs[p].result.kind = "ok"
    /\ \/ /\ procs[p].op = "add"
          /\ ~\E i \in 1..Len(file.expenses) :
                 /\ file.expenses[i].id = procs[p].id
                 /\ file.expenses[i].description = procs[p].description
       \/ /\ procs[p].op = "set_budget"
          /\ procs[p].key \notin DOMAIN file.budgets

\* C18: invocations that interleave at the reads and writes of the file can
\* lose an update: both return success and the record lacks the expense or
\* the budget one of them wrote. It takes an interleaving: as long as no
\* invocation has started while another was running, nothing a successful
\* invocation wrote is missing.
C18_LostOnlyWhenInterleaved ==
    (\E p \in Procs : Lost(p)) => overlapped

\* a set_monthly_budget and an add_expense, one invocation each, have both
\* returned success; the expense is stored and the budget is not
C18_Witness ==
    \E p, q \in Procs :
        /\ p # q
        /\ procs[p].calls = 1 /\ procs[q].calls = 1
        /\ procs[p].op = "set_budget" /\ Lost(p)
        /\ procs[q].op = "add" /\ procs[q].result.kind = "ok"
        /\ ~Running(q) /\ ~Lost(q)

\* two add_expense invocations have both returned success and one expense
\* is stored
C18_TwoAddsOneStored ==
    /\ \A p \in Procs :
          /\ procs[p].calls = 1 /\ ~Running(p)
          /\ procs[p].op = "add" /\ procs[p].result.kind = "ok"
    /\ Len(file.expenses) = 1

\* what C19 asks of one step: a next_id call returns a value greater than
\* every value returned before, last_id does not decrease, and afterwards no
\* stored expense has an id above last_id or the id of another stored one
IdsStayOrdered ==
    /\ \A p \in Procs :
          (procs[p].pc = "nid_write" /\ procs'[p] # procs[p])
             => \A i \in assigned : procs'[p].id > i
    /\ file'.last_id >= file.last_id
    /\ \A i \in 1..Len(file'.expenses) :
          /\ file'.expenses[i].id <= file'.last_id
          /\ \A j \in 1..Len(file'.expenses) :
                i # j => file'.expenses[i].id # file'.expenses[j].id

\* add_expense is the only operation any caller has invoked: each caller is
\* in its first invocation or has returned from it
OnlyAdds ==
    \A p \in Procs :
        /\ procs[p].op \in {"none", "add"}
        /\ procs[p].calls + (IF Running(p) THEN 1 ELSE 0) <= 1

\* C19 as stated: add_expense invocations that interleave at the reads and
\* writes of the file still get strictly increasing ids from next_id,
\* last_id never decreases, and no stored expense has an id greater than
\* last_id or equal to the id of another stored expense.
C19_IdsOrderedUnderInterleaving ==
    [][OnlyAdds' => IdsStayOrdered]_vars

\* C19, amended: the ids stay ordered as long as no Storage method has
\* written back a record that another invocation changed after the method
\* read it, however the invocations (add_expense or set_monthly_budget)
\* interleave between their Storage calls.
C19_IdsOrderedWhileNoStaleWrite ==
    [][~stale' => IdsStayOrdered]_vars

\* two add_expense invocations have interleaved between their Storage calls
\* without a stale write: both returned success, last_id is 2, and the one
\* expense that is stored has id 2
C19_Witness ==
    /\ overlapped /\ ~stale
    /\ \A p \in Procs :
          /\ procs[p].calls = 1 /\ ~Running(p)
          /\ procs[p].op = "add" /\ procs[p].result.kind = "ok"
    /\ file.last_id = 2
    /\ Len(file.expenses) = 1
    /\ file.expenses[1].id = 2

====
